---- MODULE Spec2Model ----
(***************************************************************************)
(* Model of the "Data Processing" cell of assessment.ipynb: main walks the *)
(* sub-folders of LANDING_ZONE and consolidates the CSV / JSON files of    *)
(* each into one gzip-compressed newline-delimited JSON file.              *)
(*                                                                         *)
(* File contents are sequences of one-character strings.  "a" and "b"      *)
(* stand for the text of two JSON objects, "x" for text that is not JSON,  *)
(* "[", "]", "," are the JSON array punctuation, " " and "\n" whitespace.  *)
(* A decoded value is kept as its whitespace-free token sequence.          *)
(***************************************************************************)
EXTENDS Integers, Sequences, FiniteSets, TLC

\* ------------------------------------------------------------------ bounds
MaxFolders == 2      \* entries listed under LANDING_ZONE
MaxFiles   == 2      \* entries listed under all sub-folders together
MaxRuns    == 2      \* invocations of main
MaxLen     == 5      \* characters of a file handed to a reader on its own

\* ------------------------------------------------------------ text helpers
Atoms == {"a", "b"}
Chars == {"a", "b", "x", "[", "]", ",", " ", "\n"}

IsWs(c) == c \in {" ", "\n"}

RECURSIVE SkipWs(_, _)
SkipWs(s, i) == IF i <= Len(s) /\ IsWs(s[i]) THEN SkipWs(s, i + 1) ELSE i

RECURSIVE Join(_)
Join(vals) ==
    IF Len(vals) = 0 THEN <<>>
    ELSE IF Len(vals) = 1 THEN vals[1]
    ELSE vals[1] \o <<",">> \o Join(Tail(vals))

Fail == [ok |-> FALSE, val |-> <<>>, elems |-> <<>>, next |-> 0]

\* json scanner: one value starting at s[i]; val is the decoded value,
\* elems the elements of a decoded array, next the index after the value
RECURSIVE ParseValue(_, _), ParseElems(_, _, _)
ParseValue(s, i) ==
    IF i > Len(s) THEN Fail
    ELSE IF s[i] \in Atoms
         THEN [ok |-> TRUE, val |-> <<s[i]>>, elems |-> <<>>, next |-> i + 1]
    ELSE IF s[i] = "["
         THEN LET j == SkipWs(s, i + 1) IN
              IF j <= Len(s) /\ s[j] = "]"
              THEN [ok |-> TRUE, val |-> <<"[", "]">>, elems |-> <<>>, next |-> j + 1]
              ELSE ParseElems(s, j, <<>>)
    ELSE Fail

ParseElems(s, j, acc) ==
    LET v == ParseValue(s, j) IN
    IF ~v.ok THEN Fail
    ELSE LET k == SkipWs(s, v.next) IN
         IF k > Len(s) THEN Fail
         ELSE IF s[k] = "]"
              THEN [ok |-> TRUE,
                    val |-> <<"[">> \o Join(Append(acc, v.val)) \o <<"]">>,
                    elems |-> Append(acc, v.val), next |-> k + 1]
         ELSE IF s[k] = ","
              THEN ParseElems(s, SkipWs(s, k + 1), Append(acc, v.val))
         ELSE Fail

\* json.loads / json.load: one value, whitespace around it, nothing else
json_loads(s) ==
    LET v == ParseValue(s, SkipWs(s, 1)) IN
    IF v.ok /\ SkipWs(s, v.next) > Len(s) THEN v ELSE Fail

\* json.dump with the default separators: ", " between array items
RECURSIVE json_dump(_)
json_dump(val) ==
    IF Len(val) = 0 THEN <<>>
    ELSE IF Head(val) = "," THEN <<",", " ">> \o json_dump(Tail(val))
    ELSE <<Head(val)>> \o json_dump(Tail(val))

\* str.strip()
RECURSIVE RStrip(_)
RStrip(s) == IF Len(s) > 0 /\ IsWs(s[Len(s)]) THEN RStrip(SubSeq(s, 1, Len(s) - 1)) ELSE s
Strip(s) == LET r == RStrip(s) IN SubSeq(r, SkipWs(r, 1), Len(r))

\* "for line in f": the lines of a text file, each with its terminator
RECURSIVE LineEnd(_, _)
LineEnd(s, i) == IF i >= Len(s) \/ s[i] = "\n" THEN i ELSE LineEnd(s, i + 1)

RECURSIVE SplitLines(_)
SplitLines(s) ==
    IF Len(s) = 0 THEN <<>>
    ELSE LET e == LineEnd(s, 1) IN
         <<SubSeq(s, 1, e)>> \o SplitLines(SubSeq(s, e + 1, Len(s)))

\* str.lower() on the suffixes that occur
Lower(ext) ==
    CASE ext = ".CSV"  -> ".csv"
      [] ext = ".JSON" -> ".json"
      [] ext = ".TXT"  -> ".txt"
      [] OTHER         -> ext

\* ----------------------------------------------------------------- readers
\* What a reader generator does when it is run to the end: the records it
\* yields, whether it then raises, what it prints and what it logs.
Result(recs, raised, errors, log) ==
    [recs |-> recs, raised |-> raised, errors |-> errors, log |-> log]

\* csv.DictReader / pandas.read_csv: first line is the header, every later
\* non-blank line is one data row
RECURSIVE Rows(_)
Rows(lines) ==
    IF Len(lines) = 0 THEN <<>>
    ELSE IF Head(lines) = "" THEN Rows(Tail(lines))
    ELSE <<<<Head(lines)>>>> \o Rows(Tail(lines))

\* csv.reader in place of csv.DictReader: the header comes out as a row
read_csv_header_row(f) ==
    IF ~f.readable THEN Result(<<>>, TRUE, 0, <<>>)
    ELSE Result(Rows(f.csv), FALSE, 0, <<>>)

read_csv(f) ==
    IF ~f.readable THEN Result(<<>>, TRUE, 0, <<>>)
    ELSE Result(Rows(Tail(f.csv)), FALSE, 0, <<>>)

read_pd_csv(f) ==
    IF ~f.readable THEN Result(<<>>, TRUE, 0, <<>>)
    ELSE Result(Rows(Tail(f.csv)), FALSE, 0, <<>>)

first_char(c) == IF Len(c) > 0 THEN c[1] ELSE ""

\* break in place of continue: reading stops at the first malformed line
RECURSIVE NdLoop_break(_)
NdLoop_break(lines) ==
    IF Len(lines) = 0 THEN <<>>
    ELSE LET line == Strip(Head(lines)) IN
         IF Len(line) > 0
         THEN LET v == json_loads(line) IN
              IF v.ok THEN <<v.val>> \o NdLoop_break(Tail(lines))
              ELSE <<>>
         ELSE NdLoop_break(Tail(lines))

\* the newline-delimited loop of read_json
RECURSIVE NdLoop(_)
NdLoop(lines) ==
    IF Len(lines) = 0 THEN <<>>
    ELSE LET line == Strip(Head(lines)) IN
         IF Len(line) > 0
         THEN LET v == json_loads(line) IN
              IF v.ok THEN <<v.val>> \o NdLoop(Tail(lines))
              ELSE NdLoop(Tail(lines))
         ELSE NdLoop(Tail(lines))

read_json(f) ==
    IF ~f.readable THEN Result(<<>>, TRUE, 0, <<>>)
    ELSE IF first_char(f.json) = "["
         THEN LET data == json_loads(f.json) IN
              IF data.ok THEN Result(data.elems, FALSE, 0, <<>>)
              ELSE Result(<<>>, TRUE, 0, <<>>)
    ELSE Result(NdLoop(SplitLines(f.json)), FALSE, 0, <<>>)

\* the newline-delimited loop of read_pd_json
RECURSIVE PdNdLoop(_)
PdNdLoop(lines) ==
    IF Len(lines) = 0 THEN <<>>
    ELSE IF Len(Strip(Head(lines))) > 0
         THEN LET v == json_loads(Head(lines)) IN
              IF v.ok THEN <<v.val>> \o PdNdLoop(Tail(lines))
              ELSE PdNdLoop(Tail(lines))
    ELSE PdNdLoop(Tail(lines))

read_pd_json(f) ==
    IF ~f.readable THEN Result(<<>>, FALSE, 1, <<>>)
    ELSE IF first_char(f.json) = "["
         THEN LET data == json_loads(f.json) IN
              IF data.ok THEN Result(data.elems, FALSE, 0, <<>>)
              ELSE Result(<<>>, FALSE, 1, <<>>)
    ELSE Result(PdNdLoop(SplitLines(f.json)), FALSE, 0, <<>>)

read_records(f, path) ==
    LET ext == Lower(f.ext) IN
    IF ext = ".csv" THEN read_csv(f)
    ELSE IF ext = ".json" THEN read_json(f)
    ELSE Result(<<>>, FALSE, 0, <<path>>)

\* -------------------------------------------------------------- file system
RegFile(ext, readable, json, csv) ==
    [isfile |-> TRUE, ext |-> ext, readable |-> readable, json |-> json, csv |-> csv]

SubDir == [isfile |-> FALSE, ext |-> "", readable |-> TRUE, json |-> <<>>, csv |-> <<>>]

\* the listing entries the runs are tried on
Files ==
    { SubDir,
      RegFile(".JSON", TRUE, <<"b", "\n", "x", "\n", "\n", "a">>, <<>>),  \* lines, one malformed, one blank
      RegFile(".json", TRUE, <<"[", "b", ",", "[", "a", ",", "a", "]", "]">>, <<>>),  \* array
      RegFile(".json", TRUE, <<"[", "a", ",">>, <<>>),                    \* array that does not load
      RegFile(".CSV", TRUE, <<>>, <<"h", "a", "", "b">>),                 \* header, two rows, a blank line
      RegFile(".csv", FALSE, <<>>, <<>>),                                 \* cannot be opened
      RegFile(".txt", TRUE, <<"x">>, <<>>) }

NonDir == [isdir |-> FALSE, files |-> <<>>]
Dir(files) == [isdir |-> TRUE, files |-> files]

FileSeqs(n) == UNION {[1..k -> Files] : k \in 0..n}

\* listings of n entries whose sub-folders hold at most budget entries together
RECURSIVE Listings(_, _)
Listings(n, budget) ==
    IF n = 0 THEN {<<>>}
    ELSE UNION { {<<e>> \o t : t \in Listings(n - 1, budget - Len(e.files))} :
                 e \in {NonDir} \cup {Dir(fl) : fl \in FileSeqs(budget)} }

Landings == UNION {Listings(n, MaxFiles) : n \in 0..MaxFolders}

\* -------------------------------------------------------------------- state
VARIABLES
    option,     \* argument of main
    fs,         \* listing of LANDING_ZONE: entries, each with its own listing
    pc,         \* where the run is: main, folder, file, nl, done, crashed, idle
    di,         \* index of the entry main is at
    fi,         \* index of the entry the folder routine is at
    ri,         \* records of the current file already written
    out,        \* PROCESSED_ZONE: text of <folder>.json.gz, per landing entry
    open,       \* artifacts open for writing
    skipLog,    \* LOG_FILE: paths written by read_records
    stdout,     \* printed messages of the current run
    routine,    \* consolidation routine executing, or "none"
    calls,      \* per landing entry, consolidations started in the current run
    run,        \* number of the current invocation of main
    prev,       \* PROCESSED_ZONE as the previous invocation left it
    rin,        \* file handed to a reader on its own
    rout        \* what that reader did

vars == <<option, fs, pc, di, fi, ri, out, open, skipLog, stdout, routine,
          calls, run, prev, rin, rout>>

NoResult == [by |-> "none", recs |-> <<>>, raised |-> FALSE, errors |-> 0, log |-> <<>>]

Init ==
    /\ option \in {"pandas", "generators"}
    /\ fs \in Landings
    /\ pc = "main"
    /\ di = 1 /\ fi = 1 /\ ri = 0
    /\ out = [d \in 1..Len(fs) |-> <<>>]
    /\ open = {}
    /\ skipLog = <<>>
    /\ stdout = <<>>
    /\ routine = "none"
    /\ calls = [d \in 1..Len(fs) |-> 0]
    /\ run = 1
    /\ prev = [d \in 1..Len(fs) |-> <<>>]
    /\ rin = SubDir
    /\ rout = NoResult

Msg(m, d, f) == [msg |-> m, folder |-> d, file |-> f]

CurFile == fs[di].files[fi]

\* the generator the running routine iterates for the current file
Gen ==
    IF routine = "process_folder" THEN read_records(CurFile, <<di, fi>>)
    ELSE IF Lower(CurFile.ext) = ".csv" THEN read_pd_csv(CurFile)
    ELSE read_pd_json(CurFile)

\* --------------------------------------------------------------------- main
\* gzip.open(output_path, 'at'): the artifact keeps what it held
gzip_open_append(d) == out

\* gzip.open(output_path, 'wt'): the artifact is created empty
gzip_open(d) == [out EXCEPT ![d] = <<>>]

main_skip ==
    /\ pc = "main" /\ di <= Len(fs) /\ ~fs[di].isdir
    /\ di' = di + 1
    /\ UNCHANGED <<option, fs, pc, fi, ri, out, open, skipLog, stdout, routine,
                   calls, run, prev, rin, rout>>

main_pandas ==
    /\ pc = "main" /\ di <= Len(fs) /\ fs[di].isdir
    /\ option = "pandas"
    /\ stdout' = Append(stdout, Msg("processing with pandas", di, 0))
    /\ routine' = "process_folder"
    /\ calls' = [calls EXCEPT ![di] = @ + 1]
    /\ out' = gzip_open(di)
    /\ open' = open \cup {di}
    /\ fi' = 1 /\ ri' = 0
    /\ pc' = "folder"
    /\ UNCHANGED <<option, fs, di, skipLog, run, prev, rin, rout>>

main_generators ==
    /\ pc = "main" /\ di <= Len(fs) /\ fs[di].isdir
    /\ option # "pandas"
    /\ stdout' = Append(stdout, Msg("processing in python generators", di, 0))
    /\ routine' = "pd_process_folder"
    /\ calls' = [calls EXCEPT ![di] = @ + 1]
    /\ out' = gzip_open(di)
    /\ open' = open \cup {di}
    /\ fi' = 1 /\ ri' = 0
    /\ pc' = "folder"
    /\ UNCHANGED <<option, fs, di, skipLog, run, prev, rin, rout>>

main_return ==
    /\ pc = "main" /\ di > Len(fs)
    /\ pc' = "done"
    /\ UNCHANGED <<option, fs, di, fi, ri, out, open, skipLog, stdout, routine,
                   calls, run, prev, rin, rout>>

\* the notebook cell that calls main is executed again on the same raw_data
rerun ==
    /\ pc \in {"done", "crashed"} /\ run < MaxRuns
    /\ run' = run + 1
    /\ prev' = out
    /\ pc' = "main"
    /\ di' = 1 /\ fi' = 1 /\ ri' = 0
    /\ stdout' = <<>>
    /\ calls' = [d \in 1..Len(fs) |-> 0]
    /\ UNCHANGED <<option, fs, out, open, skipLog, routine, rin, rout>>

\* ----------------------------------------------------------- process_folder
process_folder_next ==
    /\ pc = "folder" /\ routine = "process_folder" /\ fi <= Len(fs[di].files)
    /\ ~(CurFile.isfile /\ Lower(CurFile.ext) \in {".csv", ".json"})
    /\ fi' = fi + 1
    /\ UNCHANGED <<option, fs, pc, di, ri, out, open, skipLog, stdout, routine,
                   calls, run, prev, rin, rout>>

process_folder_read ==
    /\ pc = "folder" /\ routine = "process_folder" /\ fi <= Len(fs[di].files)
    /\ CurFile.isfile /\ Lower(CurFile.ext) \in {".csv", ".json"}
    /\ pc' = "file" /\ ri' = 0
    /\ UNCHANGED <<option, fs, di, fi, out, open, skipLog, stdout, routine,
                   calls, run, prev, rin, rout>>

\* -------------------------------------------------------- pd_process_folder
pd_process_folder_next ==
    /\ pc = "folder" /\ routine = "pd_process_folder" /\ fi <= Len(fs[di].files)
    /\ ~CurFile.isfile
    /\ fi' = fi + 1
    /\ UNCHANGED <<option, fs, pc, di, ri, out, open, skipLog, stdout, routine,
                   calls, run, prev, rin, rout>>

pd_process_folder_read ==
    /\ pc = "folder" /\ routine = "pd_process_folder" /\ fi <= Len(fs[di].files)
    /\ CurFile.isfile /\ Lower(CurFile.ext) \in {".csv", ".json"}
    /\ pc' = "file" /\ ri' = 0
    /\ UNCHANGED <<option, fs, di, fi, out, open, skipLog, stdout, routine,
                   calls, run, prev, rin, rout>>

pd_process_folder_unsupported ==
    /\ pc = "folder" /\ routine = "pd_process_folder" /\ fi <= Len(fs[di].files)
    /\ CurFile.isfile /\ Lower(CurFile.ext) \notin {".csv", ".json"}
    /\ stdout' = Append(stdout, Msg("Unsupported file format", di, fi))
    /\ fi' = fi + 1
    /\ UNCHANGED <<option, fs, pc, di, ri, out, open, skipLog, routine,
                   calls, run, prev, rin, rout>>

\* ------------------------------------------- both routines: the record loop
\* the records of a file written last to first
dump_record_reversed ==
    /\ pc = "file" /\ ri < Len(Gen.recs)
    /\ out' = [out EXCEPT ![di] = @ \o json_dump(Gen.recs[Len(Gen.recs) - ri])]
    /\ pc' = "nl"
    /\ UNCHANGED <<option, fs, di, fi, ri, open, skipLog, stdout, routine,
                   calls, run, prev, rin, rout>>

\* json.dump(record, out_file)
dump_record ==
    /\ pc = "file" /\ ri < Len(Gen.recs)
    /\ out' = [out EXCEPT ![di] = @ \o json_dump(Gen.recs[ri + 1])]
    /\ pc' = "nl"
    /\ UNCHANGED <<option, fs, di, fi, ri, open, skipLog, stdout, routine,
                   calls, run, prev, rin, rout>>

\* the newline write left out
write_newline_missing ==
    /\ pc = "nl"
    /\ ri' = ri + 1
    /\ pc' = "file"
    /\ UNCHANGED <<option, fs, di, fi, out, open, skipLog, stdout, routine,
                   calls, run, prev, rin, rout>>

\* out_file.write('\n')
write_newline ==
    /\ pc = "nl"
    /\ out' = [out EXCEPT ![di] = Append(@, "\n")]
    /\ ri' = ri + 1
    /\ pc' = "file"
    /\ UNCHANGED <<option, fs, di, fi, open, skipLog, stdout, routine,
                   calls, run, prev, rin, rout>>

\* the generator returns: the loop over the file ends
generator_end ==
    /\ pc = "file" /\ ri = Len(Gen.recs) /\ ~Gen.raised
    /\ skipLog' = skipLog \o Gen.log
    /\ stdout' = IF Gen.errors > 0
                 THEN Append(stdout, Msg("Error reading", di, fi)) ELSE stdout
    /\ fi' = fi + 1 /\ ri' = 0
    /\ pc' = "folder"
    /\ UNCHANGED <<option, fs, di, out, open, routine, calls, run, prev, rin, rout>>

\* the generator raises: the with block closes the artifact and the
\* exception leaves the routine and main
generator_raise ==
    /\ pc = "file" /\ ri = Len(Gen.recs) /\ Gen.raised
    /\ open' = open \ {di}
    /\ routine' = "none"
    /\ pc' = "crashed"
    /\ UNCHANGED <<option, fs, di, fi, ri, out, skipLog, stdout, calls, run,
                   prev, rin, rout>>

\* the listing is exhausted: the with block closes the artifact
folder_close ==
    /\ pc = "folder" /\ fi > Len(fs[di].files)
    /\ open' = open \ {di}
    /\ routine' = "none"
    /\ di' = di + 1
    /\ pc' = "main"
    /\ UNCHANGED <<option, fs, fi, ri, out, skipLog, stdout, calls, run, prev,
                   rin, rout>>

Next ==
    \/ main_skip
    \/ main_pandas
    \/ main_generators
    \/ main_return
    \/ rerun
    \/ process_folder_next
    \/ process_folder_read
    \/ pd_process_folder_next
    \/ pd_process_folder_read
    \/ pd_process_folder_unsupported
    \/ dump_record
    \/ write_newline
    \/ generator_end
    \/ generator_raise
    \/ folder_close

Spec == Init /\ [][Next]_vars

\* ------------------------------------------------ the readers on their own
InitRead ==
    /\ option = "generators"
    /\ fs = <<>>
    /\ pc = "idle"
    /\ di = 1 /\ fi = 1 /\ ri = 0
    /\ out = <<>>
    /\ open = {}
    /\ skipLog = <<>>
    /\ stdout = <<>>
    /\ routine = "none"
    /\ calls = <<>>
    /\ run = 1
    /\ prev = <<>>
    /\ \/ rin \in {f \in Files : f.isfile}
       \/ \E n \in 0..MaxLen : \E c \in [1..n -> Chars] :
              rin = RegFile(".json", TRUE, c, <<>>)
    /\ rout = NoResult

Ran(by, r) ==
    [by |-> by, recs |-> r.recs, raised |-> r.raised, errors |-> r.errors, log |-> r.log]

call_read_records ==
    /\ pc = "idle" /\ rout.by = "none"
    /\ rout' = Ran("read_records", read_records(rin, <<1, 1>>))
    /\ UNCHANGED <<option, fs, pc, di, fi, ri, out, open, skipLog, stdout,
                   routine, calls, run, prev, rin>>

call_read_pd_json ==
    /\ pc = "idle" /\ rout.by = "none"
    /\ Lower(rin.ext) = ".json"
    /\ rout' = Ran("read_pd_json", read_pd_json(rin))
    /\ UNCHANGED <<option, fs, pc, di, fi, ri, out, open, skipLog, stdout,
                   routine, calls, run, prev, rin>>

call_read_pd_csv ==
    /\ pc = "idle" /\ rout.by = "none"
    /\ Lower(rin.ext) = ".csv"
    /\ rout' = Ran("read_pd_csv", read_pd_csv(rin))
    /\ UNCHANGED <<option, fs, pc, di, fi, ri, out, open, skipLog, stdout,
                   routine, calls, run, prev, rin>>

NextRead ==
    \/ call_read_records
    \/ call_read_pd_json
    \/ call_read_pd_csv

SpecRead == InitRead /\ [][NextRead]_vars

\* ------------------------------------------------------ what the claims use
RECURSIVE Count(_, _)
Count(s, x) ==
    IF Len(s) = 0 THEN 0
    ELSE (IF Head(s) = x THEN 1 ELSE 0) + Count(Tail(s), x)

\* text of an artifact that holds exactly these records, one per line
RECURSIVE Text(_)
Text(recs) ==
    IF Len(recs) = 0 THEN <<>>
    ELSE json_dump(Head(recs)) \o <<"\n">> \o Text(Tail(recs))

Supported(f) == f.isfile /\ Lower(f.ext) \in {".csv", ".json"}
Unsupported(f) == f.isfile /\ Lower(f.ext) \notin {".csv", ".json"}

\* the routine main runs for every folder of this invocation
Dispatched == IF option = "pandas" THEN "process_folder" ELSE "pd_process_folder"

\* records the dispatched routine obtains from entry i of folder d
Decoded(d, i) ==
    LET f == fs[d].files[i] IN
    IF ~Supported(f) THEN <<>>
    ELSE IF Dispatched = "process_folder" THEN read_records(f, <<d, i>>).recs
    ELSE IF Lower(f.ext) = ".csv" THEN read_pd_csv(f).recs
    ELSE read_pd_json(f).recs

\* artifact text owed to entries 1..n of folder d, in listing order
RECURSIVE Upto(_, _)
Upto(d, n) == IF n = 0 THEN <<>> ELSE Upto(d, n - 1) \o Text(Decoded(d, n))

\* folder d was consolidated to the end in the current invocation
Consolidated(d) == d \in 1..Len(fs) /\ fs[d].isdir /\ calls[d] = 1 /\ d < di

Terminated == pc \in {"done", "crashed"}

\* ---------------------------------------------------------------------- C1
\* C1: every regular file whose extension is neither .csv nor .json
\* contributes no line and gets exactly one Skip Log entry naming its path,
\* whichever routine main dispatches to.  Stated for the first invocation,
\* once it has ended.
C1_SkipLogged ==
    (run = 1 /\ Terminated) =>
        \A d \in 1..Len(fs) : Consolidated(d) =>
            \A i \in 1..Len(fs[d].files) :
                Unsupported(fs[d].files[i]) =>
                    /\ Count(skipLog, <<d, i>>) = 1
                    /\ out[d] = Upto(d, Len(fs[d].files))

\* ---------------------------------------------------------------------- C2
\* C2: a file that cannot be opened or read (or an array-mode file that does
\* not load) never makes the error leave the folder consolidation: the run
\* is never ended by a propagating exception.
C2_ErrorsCaught == pc # "crashed"

\* ---------------------------------------------------------------------- C3
FirstNonWs(c) == LET i == SkipWs(c, 1) IN IF i <= Len(c) THEN c[i] ELSE ""

\* C3: the JSON readers choose the mode from the first non-whitespace
\* character: "[" gives array mode (one record per array element), anything
\* else newline-delimited mode.
C3_SniffFirstNonWhitespace ==
    (rout.by \in {"read_records", "read_pd_json"}
        /\ Lower(rin.ext) = ".json" /\ rin.readable) =>
        IF FirstNonWs(rin.json) = "["
        THEN json_loads(rin.json).ok =>
                 (~rout.raised /\ rout.recs = json_loads(rin.json).elems)
        ELSE ~rout.raised /\ rout.recs = NdLoop(SplitLines(rin.json))

\* ---------------------------------------------------------------------- C4
CountNl(s) == Count(s, "\n")

DataRows(f) == Cardinality({i \in 2..Len(f.csv) : f.csv[i] # ""})

ParsedLines(f) ==
    LET lines == SplitLines(f.json) IN
    Cardinality({i \in 1..Len(lines) : json_loads(lines[i]).ok})

RECURSIVE SumLines(_, _)
SumLines(d, n) ==
    IF n = 0 THEN 0
    ELSE LET f == fs[d].files[n] IN
         SumLines(d, n - 1) +
             (IF ~f.isfile THEN 0
              ELSE IF Lower(f.ext) = ".csv" THEN DataRows(f)
              ELSE ParsedLines(f))

\* only sub-directories, readable CSV files and readable JSON files that do
\* not start as an array
ValidOnly(d) ==
    \A i \in 1..Len(fs[d].files) :
        LET f == fs[d].files[i] IN
        f.isfile => /\ Supported(f)
                    /\ f.readable
                    /\ Lower(f.ext) = ".json" => first_char(f.json) # "["

\* C4: for a folder of valid CSV and newline-delimited JSON files, the
\* artifact has as many lines as the CSV files have data rows plus the JSON
\* files have parsable lines.
C4_LineCount ==
    \A d \in 1..Len(fs) :
        (Consolidated(d) /\ ValidOnly(d)) =>
            CountNl(out[d]) = SumLines(d, Len(fs[d].files))

C4_Witness ==
    \E d \in 1..Len(fs) :
        /\ Consolidated(d) /\ ValidOnly(d)
        /\ \E i, j \in 1..Len(fs[d].files) :
              /\ Lower(fs[d].files[i].ext) = ".csv"
              /\ Lower(fs[d].files[j].ext) = ".json"
              /\ ParsedLines(fs[d].files[j]) < Len(SplitLines(fs[d].files[j].json))
        /\ CountNl(out[d]) = 4

\* ---------------------------------------------------------------------- C5
NdInput == Lower(rin.ext) = ".json" /\ rin.readable /\ first_char(rin.json) # "["

Parsable(line) == json_loads(line).ok

ParsedOf(c) ==
    LET good == SelectSeq(SplitLines(c), Parsable) IN
    [k \in 1..Len(good) |-> json_loads(good[k]).val]

\* C5: in newline-delimited mode a line that does not parse is dropped
\* without an error, a message or a Skip Log entry, and the lines that do
\* parse are the records, in file order.
C5_MalformedLineDropped ==
    (rout.by \in {"read_records", "read_pd_json"} /\ NdInput) =>
        /\ ~rout.raised
        /\ rout.errors = 0
        /\ rout.log = <<>>
        /\ rout.recs = ParsedOf(rin.json)

C5_Witness ==
    /\ rout.by = "read_records" /\ NdInput
    /\ Len(SplitLines(rin.json)) = 3
    /\ \E k \in 1..3 : LET line == SplitLines(rin.json)[k] IN
                       Strip(line) # <<>> /\ ~Parsable(line)
    /\ rout.recs = << <<"a">>, <<"b">> >>

\* ---------------------------------------------------------------------- C6
\* C6: the artifact is opened truncated, so a folder consolidated again on
\* the unchanged raw data holds exactly what the previous invocation left.
C6_RerunSameRecords ==
    \A d \in 1..Len(fs) : (run > 1 /\ Consolidated(d)) => out[d] = prev[d]

C6_Witness ==
    /\ run = 2 /\ pc = "done"
    /\ \E d \in 1..Len(fs) : Consolidated(d) /\ CountNl(out[d]) >= 2

\* ---------------------------------------------------------------------- C7
\* what the loop over the current file has put into the artifact
Current ==
    IF pc \in {"file", "nl"}
    THEN Text(SubSeq(Gen.recs, 1, ri))
             \o (IF pc = "nl" THEN json_dump(Gen.recs[ri + 1]) ELSE <<>>)
    ELSE <<>>

\* C7: an artifact is the records of the files read so far, file after file
\* in listing order, each file's records together and in the file's order.
C7_FileOrder ==
    \A d \in 1..Len(fs) :
        /\ Consolidated(d) => out[d] = Upto(d, Len(fs[d].files))
        /\ (d = di /\ pc \in {"folder", "file", "nl", "crashed"}) =>
               out[d] = Upto(d, fi - 1) \o Current

C7_Witness ==
    \E d \in 1..Len(fs) :
        /\ Consolidated(d)
        /\ Len(fs[d].files) = 2
        /\ Len(Decoded(d, 1)) = 2 /\ Len(Decoded(d, 2)) = 2
        /\ Decoded(d, 1) # Decoded(d, 2)

\* ---------------------------------------------------------------------- C8
\* C8: when main has ended, every sub-directory was consolidated exactly
\* once and no other entry ever; at no time is more than one artifact open.
C8_OncePerSubdirectory ==
    /\ Cardinality(open) <= 1
    /\ Terminated =>
           \A d \in 1..Len(fs) : calls[d] = IF fs[d].isdir THEN 1 ELSE 0

\* ---------------------------------------------------------------------- C9
\* one line is the encoding of exactly one value
OneRecord(line) ==
    /\ line[Len(line)] = "\n"
    /\ LET v == json_loads(line) IN
       v.ok /\ line = json_dump(v.val) \o <<"\n">>

\* C9: every completed line of every artifact is the encoding of exactly one
\* record followed by one newline; only the line being written is open.
C9_LinesWellFormed ==
    \A d \in 1..Len(fs) :
        LET lines == SplitLines(out[d]) IN
        \A k \in 1..Len(lines) :
            \/ OneRecord(lines[k])
            \/ /\ k = Len(lines) /\ d = di /\ pc = "nl"
               /\ json_loads(lines[k]).ok

C9_Witness ==
    /\ pc = "done"
    /\ \E d \in 1..Len(fs) :
          LET lines == SplitLines(out[d]) IN
          /\ Len(lines) = 4
          /\ \E k \in 1..Len(lines) : lines[k] = <<"[", "a", ",", " ", "a", "]", "\n">>

\* --------------------------------------------------------------------- C10
\* C10: main("pandas") runs pd_process_folder, any other option runs
\* process_folder, and the routine running for a folder is the one the
\* progress message of that folder announces.
C10_SelectorMatches ==
    routine # "none" =>
        /\ routine = (IF option = "pandas" THEN "pd_process_folder"
                      ELSE "process_folder")
        /\ \E k \in 1..Len(stdout) :
              /\ stdout[k].folder = di /\ stdout[k].file = 0
              /\ stdout[k].msg = (IF routine = "pd_process_folder"
                                  THEN "processing with pandas"
                                  ELSE "processing in python generators")

====
